---- MODULE Spec2Model ----
(***************************************************************************)
(* The backtest simulation engine of Python-Algo-Bot: the four backtest    *)
(* loops (backtest-template.py / check_accuracy.py backtest_vectorized,    *)
(* optimize_fixed.py and optimize_strategy.py backtest_with_params,        *)
(* patternOptimizer.py backtest_with_pattern_params), their indicators,    *)
(* hammer classifiers, forward scan and statistics.                        *)
(*                                                                         *)
(* Numbers.  Prices are integers counting ticks; `ticks` is the number of   *)
(* ticks in one price unit (1 for the coarse series, 5 for a few series,    *)
(* 100000 for the fine ones, in which a body can be smaller than the        *)
(* classifiers' 0.0001).                                                    *)
(* ATR is a mean over AtrPeriod rows and                                    *)
(* the SL/TP multiples are given in tenths, so every level, every profit   *)
(* and every price stored in a trade is kept multiplied by                 *)
(* Scale = 10 * AtrPeriod; all comparisons are then exact.  Ratios of the  *)
(* report are kept as [num, den] pairs; den = 0 with num > 0 stands for    *)
(* float('inf').  Floating-point rounding is not modelled.                 *)
(*                                                                         *)
(* Indices are the 0-based positions of the source: Row(k) is df.iloc[k].  *)
(* The DataFrame index (timestamps) is taken unique, so that a label and   *)
(* a position name the same row.                                           *)
(***************************************************************************)
EXTENDS Integers, Sequences, FiniteSets, TLC

(***************************************************************************)
(* Bounds.  StartIndex, Lookahead and AtrPeriod stand for the source's     *)
(* 100, 100 and 14 (range(100, len(df)), df.iloc[i + 1 : i + 100],         *)
(* calculate_atr(df, 14)), scaled down so that series of MaxLen rows       *)
(* exercise them; as in the source, StartIndex >= AtrPeriod - 1.           *)
(* A run of the dashboard serves MaxRequests requests, and a history has   *)
(* at most HistoryLen trades.                                              *)
(***************************************************************************)
MaxLen == 4
StartIndex == 1
Lookahead == 3
AtrPeriod == 2
MaxRequests == 4
HistoryLen == 2

Scale == 10 * AtrPeriod

EmaFastPeriod == 9
EmaSlowPeriod == 15

\* Fixed-distance levels of backtest_vectorized (price units).
FixedBuySl == 5
FixedBuyTp == 10
FixedSellSl == 10
FixedSellTp == 20

\* The backtests: the arguments of a call, the position in it, its results.
VARIABLES df, ticks, columns, variant, use_atr, use_trend_filter, mult, thresholds,
          pc, i, trades, stats

\* The live driver (finalBot.py): the candles the broker has, the number of
\* them that are complete, each poller thread's position and locals, the
\* shared position table and the orders sent to the broker.
VARIABLES tape, net, clock, lpc, loc, active_positions, orders

live == <<tape, net, clock, lpc, loc, active_positions, orders>>

\* The dashboard (backend.py, backend_enhanced.py): the bot_state dictionary,
\* the trade dictionaries its two lists refer to, and the last response.
VARIABLES bot_state, objects, response

dash == <<bot_state, objects, response>>

backtest == <<df, ticks, columns, variant, use_atr, use_trend_filter, mult, thresholds,
              pc, i, trades, stats>>

vars == <<df, ticks, columns, variant, use_atr, use_trend_filter, mult, thresholds,
          pc, i, trades, stats, live, dash>>

inputs == <<df, ticks, columns, variant, use_atr, use_trend_filter, mult, thresholds>>

(***************************************************************************)
(* Inputs                                                                  *)
(***************************************************************************)
Candle(o, h, l, c) == [open |-> o, high |-> h, low |-> l, close |-> c]

\* The candles the input series are built from: a flat candle, a bullish
\* and a bearish hammer, a wide candle closing low, a rising candle, and
\* two candles no validation has removed (high below the body; high < low).
Candles ==
    { Candle(5, 5, 5, 5),
      Candle(8, 10, 5, 10),
      Candle(7, 10, 5, 5),
      Candle(5, 20, 0, 5),
      Candle(10, 20, 10, 15),
      Candle(8, 5, 5, 10),
      Candle(8, 4, 5, 10) }

RequiredCols == {"open", "high", "low", "close", "volume"}

ColumnSets == { RequiredCols, RequiredCols \ {"volume"}, RequiredCols \ {"close"} }

Variants == {"template", "fixed", "strategy", "pattern"}

\* SL/TP multiples in tenths.
Mults(bs, bt, ss, st) == [buy_sl |-> bs, buy_tp |-> bt, sell_sl |-> ss, sell_tp |-> st]

TemplateMults == Mults(10, 20, 20, 40)

PatternDefaults == Mults(10, 15, 15, 30)

TestParams == { Mults(10, 15, 15, 30), Mults(15, 10, 10, 20) }

\* Pattern thresholds in hundredths: <<max opposite shadow factor, min confirming shadow ratio>>.
DefaultThresholds == <<65, 150>>

\* (0.65, 1.5) is the default everywhere; (0.4, 2.5) is the "Very Strict"
\* configuration of optimize_hammer_pattern.
ThresholdChoices == { <<65, 150>>, <<40, 250>> }

SeriesOfLen(n) == [1..n -> Candles]

\* The well-formed candles of Candles.
ValidCandles ==
    { c \in Candles : c.low <= c.open /\ c.low <= c.close /\ c.open <= c.high /\ c.close <= c.high }

\* Every series of well-formed candles up to MaxLen rows, and every series of
\* any candles up to the first loop index and two rows after it.
AllSeries ==
    UNION { [1..n -> ValidCandles] : n \in 1..MaxLen }
    \cup UNION { SeriesOfLen(n) : n \in 1..(StartIndex + 2) }

\* Series long enough to hold a row Lookahead rows after the first loop
\* index, built from the flat candle, the bearish hammer and the wide candle.
ScanCandles == { Candle(5, 5, 5, 5), Candle(7, 10, 5, 5), Candle(5, 20, 0, 5) }

LongSeries == [1 .. (StartIndex + Lookahead + 1) -> ScanCandles]

\* Series in which a hammer closes between the two averages: closes 5, 10
\* give EMA fast 6 and EMA slow 5.625, and the third candle closes at 6.
TrendCandles == { Candle(5, 5, 5, 5), Candle(8, 10, 5, 10), Candle(5, 6, 3, 6) }

TrendSeries == [1 .. (StartIndex + 2) -> TrendCandles]

\* Series read at 5 ticks per price unit (one tick is 0.2): two hammers in a
\* row then have an ATR of exactly one price unit.
UnitAtrSeries == [1 .. (StartIndex + 2) -> ScanCandles \cup {Candle(8, 10, 5, 10)}]

\* Ticks per price unit of the fine series: one tick is 0.00001.
FineTicks == 10 * 10000

\* The fine series: a signal row at the first loop index and one row after it.
FineSeries == SeriesOfLen(StartIndex + 2)

(***************************************************************************)
(* Arithmetic helpers                                                      *)
(***************************************************************************)
Abs(x) == IF x < 0 THEN -x ELSE x

Max2(a, b) == IF a >= b THEN a ELSE b

Min2(a, b) == IF a <= b THEN a ELSE b

Rat(n, d) == [num |-> n, den |-> d]

RECURSIVE Pow(_, _)
Pow(b, e) == IF e = 0 THEN 1 ELSE b * Pow(b, e - 1)

N == Len(df)

Row(k) == df[k + 1]

(***************************************************************************)
(* Indicators                                                              *)
(***************************************************************************)
\* The true range taken against the close of the row after (shift(-1)).
TrueRangeFromNextClose(s, k) ==
    LET r == s[k + 1]
        hl == r.high - r.low
    IN  IF k + 1 >= Len(s) THEN hl
        ELSE LET next == s[k + 2].close
             IN  Max2(hl, Max2(Abs(r.high - next), Abs(r.low - next)))

\* The true range as the distance of the high to the previous close alone.
TrueRangeToHighOnly(s, k) ==
    LET r == s[k + 1]
    IN  IF k = 0 THEN r.high - r.low ELSE Abs(r.high - s[k].close)

\* df['tr'] of a series s at row k: max of hl, hc, lc; hc and lc are NaN at
\* row 0 and max skips them.
TrueRangeOf(s, k) ==
    LET r == s[k + 1]
        hl == r.high - r.low
    IN  IF k = 0 THEN hl
        ELSE LET prev == s[k].close
             IN  Max2(hl, Max2(Abs(r.high - prev), Abs(r.low - prev)))

\* The sum of the n true ranges that end at row k.
RECURSIVE TrSumOf(_, _, _)
TrSumOf(s, k, n) == IF n = 0 THEN 0 ELSE TrueRangeOf(s, k) + TrSumOf(s, k - 1, n - 1)

TrueRange(k) == TrueRangeOf(df, k)

TrSum(k, n) == TrSumOf(df, k, n)

\* rolling(window=period).mean() is NaN until the window is filled.
AtrDefined(k) == k >= AtrPeriod - 1

\* ATR at row k times Scale (only where AtrDefined).
AtrScaled(k) == 10 * TrSum(k, AtrPeriod)

\* `atr > 0` of the source: False for NaN.
AtrPositive(k) == AtrDefined(k) /\ AtrScaled(k) > 0

\* ewm(span=p, adjust=False).mean() of the closes of s at row k, times
\* (p+1)^k.
RECURSIVE EmaNumOf(_, _, _)
EmaNumOf(s, p, k) ==
    IF k = 0 THEN s[1].close
    ELSE 2 * s[k + 1].close * Pow(p + 1, k - 1) + (p - 1) * EmaNumOf(s, p, k - 1)

EmaNum(p, k) == EmaNumOf(df, p, k)

CloseAboveEmaOf(s, p, k) == s[k + 1].close * Pow(p + 1, k) > EmaNumOf(s, p, k)

CloseBelowEmaOf(s, p, k) == s[k + 1].close * Pow(p + 1, k) < EmaNumOf(s, p, k)

CloseAboveEma(p, k) == CloseAboveEmaOf(df, p, k)

CloseBelowEma(p, k) == CloseBelowEmaOf(df, p, k)

\* is_uptrend / is_downtrend on row k of a series s.
uptrend(s, k) == CloseAboveEmaOf(s, EmaFastPeriod, k) \/ CloseAboveEmaOf(s, EmaSlowPeriod, k)

downtrend(s, k) == CloseBelowEmaOf(s, EmaFastPeriod, k) \/ CloseBelowEmaOf(s, EmaSlowPeriod, k)

\* The uptrend test against the larger of the two averages.
UptrendAboveBoth(k) == CloseAboveEma(EmaFastPeriod, k) /\ CloseAboveEma(EmaSlowPeriod, k)

\* close > EMA_lower = min(EMA_fast, EMA_slow)
is_uptrend(k) == CloseAboveEma(EmaFastPeriod, k) \/ CloseAboveEma(EmaSlowPeriod, k)

\* close < EMA_upper = max(EMA_fast, EMA_slow)
is_downtrend(k) == CloseBelowEma(EmaFastPeriod, k) \/ CloseBelowEma(EmaSlowPeriod, k)

(***************************************************************************)
(* Pattern classifier and signals                                          *)
(***************************************************************************)
\* patternOptimizer and finalBot reject doji-like bodies (body < 0.0001);
\* the other copies have no such test.
DojiRejected(body) == variant \in {"pattern", "live"} /\ body * 10000 < ticks

\* backtest_vectorized hard-codes 0.65 and 1.5; the other variants pass
\* (max_lower_shadow, min_upper_shadow) to both classifiers, finalBot reads
\* them from CFG.
Factor == IF variant = "template" THEN DefaultThresholds[1] ELSE thresholds[1]

Ratio == IF variant = "template" THEN DefaultThresholds[2] ELSE thresholds[2]

\* The bearish test with `c > o` for `c >= o`: a candle with close = open
\* passes the first test.
BearishAcceptsEqualClose(s, k) ==
    LET r == s[k + 1]
        body == r.open - r.close
        upper_shadow == r.high - r.open
        lower_shadow == r.close - r.low
    IN  IF r.close > r.open THEN FALSE
        ELSE IF DojiRejected(body) THEN FALSE
        ELSE IF lower_shadow * 100 > Factor * body THEN FALSE
        ELSE IF upper_shadow * 100 < Ratio * body THEN FALSE
        ELSE TRUE

\* The bearish test with the open taken from the close of the row before.
BearishFromPreviousClose(s, k) ==
    LET r == s[k + 1]
        o == IF k > 0 THEN s[k].close ELSE r.open
        body == o - r.close
        upper_shadow == r.high - o
        lower_shadow == r.close - r.low
    IN  IF r.close >= o THEN FALSE
        ELSE IF DojiRejected(body) THEN FALSE
        ELSE IF lower_shadow * 100 > Factor * body THEN FALSE
        ELSE IF upper_shadow * 100 < Ratio * body THEN FALSE
        ELSE TRUE

\* df.apply(is_bearish_hammer, axis=1) of a series s, at row k.
bearish_hammer(s, k) ==
    LET r == s[k + 1]
        body == r.open - r.close
        upper_shadow == r.high - r.open
        lower_shadow == r.close - r.low
    IN  IF r.close >= r.open THEN FALSE
        ELSE IF DojiRejected(body) THEN FALSE
        ELSE IF lower_shadow * 100 > Factor * body THEN FALSE
        ELSE IF upper_shadow * 100 < Ratio * body THEN FALSE
        ELSE TRUE

\* df.apply(is_bullish_hammer, axis=1) of a series s, at row k.
bullish_hammer(s, k) ==
    LET r == s[k + 1]
        body == r.close - r.open
        upper_shadow == r.high - r.close
        lower_shadow == r.open - r.low
    IN  IF r.close <= r.open THEN FALSE
        ELSE IF DojiRejected(body) THEN FALSE
        ELSE IF upper_shadow * 100 > Factor * body THEN FALSE
        ELSE IF lower_shadow * 100 < Ratio * body THEN FALSE
        ELSE TRUE

is_bearish_hammer(k) == bearish_hammer(df, k)

is_bullish_hammer(k) == bullish_hammer(df, k)

TrendFiltered == variant = "pattern" /\ use_trend_filter

buy_signal(k) == is_bullish_hammer(k) /\ (TrendFiltered => is_uptrend(k))

sell_signal(k) == is_bearish_hammer(k) /\ (TrendFiltered => is_downtrend(k))

(***************************************************************************)
(* Trade simulator                                                         *)
(***************************************************************************)
EntryPrice(k) == Row(k).close * Scale

\* The `if atr > 0` (template: `if use_atr and atr > 0`) test of a signal row.
UsesAtr(k) == IF variant = "template" THEN use_atr /\ AtrPositive(k) ELSE AtrPositive(k)

\* The else branch: fixed distances in the template, `continue` elsewhere.
SignalSkipped(k) == variant # "template" /\ ~AtrPositive(k)

BuySl(k) ==
    IF UsesAtr(k) THEN EntryPrice(k) - mult.buy_sl * TrSum(k, AtrPeriod)
    ELSE EntryPrice(k) - FixedBuySl * ticks * Scale

BuyTp(k) ==
    IF UsesAtr(k) THEN EntryPrice(k) + mult.buy_tp * TrSum(k, AtrPeriod)
    ELSE EntryPrice(k) + FixedBuyTp * ticks * Scale

\* The sell stop placed on the buy side of the entry.
SellSlBelowEntry(k) ==
    IF UsesAtr(k) THEN EntryPrice(k) - mult.sell_sl * TrSum(k, AtrPeriod)
    ELSE EntryPrice(k) - FixedSellSl * ticks * Scale

SellSl(k) ==
    IF UsesAtr(k) THEN EntryPrice(k) + mult.sell_sl * TrSum(k, AtrPeriod)
    ELSE EntryPrice(k) + FixedSellSl * ticks * Scale

SellTp(k) ==
    IF UsesAtr(k) THEN EntryPrice(k) - mult.sell_tp * TrSum(k, AtrPeriod)
    ELSE EntryPrice(k) - FixedSellTp * ticks * Scale

StopLevel(type, k) == IF type = "BUY" THEN BuySl(k) ELSE SellSl(k)

TakeLevel(type, k) == IF type = "BUY" THEN BuyTp(k) ELSE SellTp(k)

\* The two tests of the scan loop on one future row.
TouchesTp(type, j, tp) ==
    IF type = "BUY" THEN Row(j).high * Scale >= tp ELSE Row(j).low * Scale <= tp

TouchesSl(type, j, sl) ==
    IF type = "BUY" THEN Row(j).low * Scale <= sl ELSE Row(j).high * Scale >= sl

\* One past the last row of future_data = df.iloc[k + 1 : k + Lookahead].
ScanStop(k) == Min2(k + Lookahead, N)

NoExit == [found |-> FALSE, idx |-> 0, hit_tp |-> FALSE]

\* The scan without its `break`: the last row that passes a test wins.
RECURSIVE ScanFromNoBreak(_, _, _, _, _)
ScanFromNoBreak(j, stop, type, sl, tp) ==
    IF j >= stop THEN NoExit
    ELSE LET later == ScanFromNoBreak(j + 1, stop, type, sl, tp)
         IN  IF later.found THEN later
             ELSE IF TouchesTp(type, j, tp) THEN [found |-> TRUE, idx |-> j, hit_tp |-> TRUE]
             ELSE IF TouchesSl(type, j, sl) THEN [found |-> TRUE, idx |-> j, hit_tp |-> FALSE]
             ELSE NoExit

\* The scan with the stop-loss test before the take-profit test.
RECURSIVE ScanFromStopFirst(_, _, _, _, _)
ScanFromStopFirst(j, stop, type, sl, tp) ==
    IF j >= stop THEN NoExit
    ELSE IF TouchesSl(type, j, sl) THEN [found |-> TRUE, idx |-> j, hit_tp |-> FALSE]
    ELSE IF TouchesTp(type, j, tp) THEN [found |-> TRUE, idx |-> j, hit_tp |-> TRUE]
    ELSE ScanFromStopFirst(j + 1, stop, type, sl, tp)

\* for ts, future_row in future_data.iterrows(): take-profit test first,
\* break at the first row that passes either test.
RECURSIVE ScanFrom(_, _, _, _, _)
ScanFrom(j, stop, type, sl, tp) ==
    IF j >= stop THEN NoExit
    ELSE IF TouchesTp(type, j, tp) THEN [found |-> TRUE, idx |-> j, hit_tp |-> TRUE]
    ELSE IF TouchesSl(type, j, sl) THEN [found |-> TRUE, idx |-> j, hit_tp |-> FALSE]
    ELSE ScanFrom(j + 1, stop, type, sl, tp)

FindExit(type, k) == ScanFrom(k + 1, ScanStop(k), type, StopLevel(type, k), TakeLevel(type, k))

\* backtest_vectorized: price delta to the close of the exit row.
TemplateProfit(type, entry, exit_price, hit_tp) ==
    IF type = "BUY"
    THEN (IF hit_tp THEN exit_price - entry ELSE -(entry - exit_price))
    ELSE (IF hit_tp THEN entry - exit_price ELSE -(exit_price - entry))

\* optimize_fixed, patternOptimizer: the multiple of the ATR.
MultipleProfit(type, k, hit_tp) ==
    IF type = "BUY"
    THEN (IF hit_tp THEN mult.buy_tp * TrSum(k, AtrPeriod)
                    ELSE -(mult.buy_sl * TrSum(k, AtrPeriod)))
    ELSE (IF hit_tp THEN mult.sell_tp * TrSum(k, AtrPeriod)
                    ELSE -(mult.sell_sl * TrSum(k, AtrPeriod)))

\* optimize_strategy: computed inside the scan loop from entry, sl and tp.
StrategyProfit(type, entry, sl, tp, hit_tp) ==
    IF type = "BUY"
    THEN (IF hit_tp THEN entry - (entry - tp) ELSE -(entry - sl))
    ELSE (IF hit_tp THEN entry - tp ELSE -(sl - entry))

Profit(type, k, ex) ==
    CASE variant = "template" ->
            TemplateProfit(type, EntryPrice(k), Row(ex.idx).close * Scale, ex.hit_tp)
      [] variant = "strategy" ->
            StrategyProfit(type, EntryPrice(k), StopLevel(type, k), TakeLevel(type, k), ex.hit_tp)
      [] OTHER -> MultipleProfit(type, k, ex.hit_tp)

\* The dict appended to trades.  entry_idx, exit_idx, sl, tp, exit_price and
\* candles_held are kept for every variant, also where the source's dict
\* drops them; atr_used records which branch set the levels.
Trade(type, k, ex) ==
    [type         |-> type,
     entry_idx    |-> k,
     exit_idx     |-> ex.idx,
     entry_price  |-> EntryPrice(k),
     exit_price   |-> Row(ex.idx).close * Scale,
     sl           |-> StopLevel(type, k),
     tp           |-> TakeLevel(type, k),
     atr_used     |-> UsesAtr(k),
     hit_tp       |-> ex.hit_tp,
     profit       |-> Profit(type, k, ex),
     candles_held |-> ex.idx - k]

(***************************************************************************)
(* Statistics aggregator                                                   *)
(***************************************************************************)
IsWinner(t) == t.profit > 0

\* Losers without the break-even trades.
IsStrictLoser(t) == t.profit < 0

IsLoser(t) == t.profit <= 0

Winners(ts) == SelectSeq(ts, IsWinner)

Losers(ts) == SelectSeq(ts, IsLoser)

IsBuy(t) == t.type = "BUY"

IsSell(t) == t.type = "SELL"

RECURSIVE SumProfit(_)
SumProfit(ts) == IF ts = <<>> THEN 0 ELSE Head(ts).profit + SumProfit(Tail(ts))

RECURSIVE SumEntry(_)
SumEntry(ts) == IF ts = <<>> THEN 0 ELSE Head(ts).entry_price + SumEntry(Tail(ts))

RECURSIVE SumHeld(_)
SumHeld(ts) == IF ts = <<>> THEN 0 ELSE Head(ts).candles_held + SumHeld(Tail(ts))

RECURSIVE MaxProfit(_)
MaxProfit(ts) ==
    IF Len(ts) = 1 THEN Head(ts).profit ELSE Max2(Head(ts).profit, MaxProfit(Tail(ts)))

RECURSIVE MinProfit(_)
MinProfit(ts) ==
    IF Len(ts) = 1 THEN Head(ts).profit ELSE Min2(Head(ts).profit, MinProfit(Tail(ts)))

Zero == Rat(0, 1)

\* float('inf')
Infinity == Rat(1, 0)

\* (win_count / total_trades) * 100 if total_trades > 0 else 0
WinRate(ts) == IF Len(ts) > 0 THEN Rat(Len(Winners(ts)) * 100, Len(ts)) ELSE Zero

AvgWin(ts) ==
    IF Len(Winners(ts)) > 0 THEN Rat(SumProfit(Winners(ts)), Len(Winners(ts))) ELSE Zero

AvgLoss(ts) ==
    IF Len(Losers(ts)) > 0 THEN Rat(Abs(SumProfit(Losers(ts))), Len(Losers(ts))) ELSE Zero

\* backtest-template, optimize_strategy, patternOptimizer
ProfitFactorPlain(ts) ==
    IF Len(Losers(ts)) > 0 /\ SumProfit(Losers(ts)) # 0
    THEN Rat(SumProfit(Winners(ts)), Abs(SumProfit(Losers(ts))))
    ELSE Zero

\* optimize_fixed
ProfitFactorFixed(ts) ==
    IF Len(Losers(ts)) > 0 /\ SumProfit(Losers(ts)) # 0
    THEN Rat(SumProfit(Winners(ts)), Abs(SumProfit(Losers(ts))))
    ELSE IF SumProfit(ts) > 0 THEN Infinity ELSE Zero

ProfitFactor(ts) == IF variant = "fixed" THEN ProfitFactorFixed(ts) ELSE ProfitFactorPlain(ts)

\* (total_profit / (entry_price.sum() / total_trades)) * 100
TotalReturnTemplate(ts) == Rat(SumProfit(ts) * Len(ts) * 100, SumEntry(ts))

TotalReturnFixed(ts) ==
    IF Abs(SumProfit(Losers(ts))) > 0
    THEN Rat(SumProfit(Winners(ts)) * 100, Abs(SumProfit(Losers(ts))))
    ELSE IF SumProfit(ts) > 0 THEN Rat(100, 1) ELSE Zero

\* (total_profit / abs(profit.sum() + 1)) * 100; the 1 is one price unit.
TotalReturnStrategy(ts) == Rat(SumProfit(ts) * 100, Abs(SumProfit(ts) + ticks * Scale))

Rows == 0 .. (N - 1)

BullishCount == Cardinality({k \in Rows : is_bullish_hammer(k)})

BearishCount == Cardinality({k \in Rows : is_bearish_hammer(k)})

BuySignalCount == Cardinality({k \in Rows : buy_signal(k)})

SellSignalCount == Cardinality({k \in Rows : sell_signal(k)})

\* `return {}`
EmptyDict == << >>

EmptyReport ==
    CASE variant = "template" -> EmptyDict
      [] variant = "pattern" ->
            [total_patterns |-> BullishCount + BearishCount,
             total_trades |-> 0, win_rate |-> Zero, profit_factor |-> Zero,
             avg_win |-> Zero, avg_loss |-> Zero]
      [] OTHER ->
            [total_trades |-> 0, win_rate |-> Zero, profit_factor |-> Zero,
             total_return |-> Zero, avg_win |-> Zero, avg_loss |-> Zero]

Report(ts) ==
    CASE variant = "template" ->
            [total_trades |-> Len(ts),
             win_count |-> Len(Winners(ts)),
             loss_count |-> Len(Losers(ts)),
             win_rate |-> WinRate(ts),
             total_profit |-> SumProfit(ts),
             avg_win |-> AvgWin(ts),
             avg_loss |-> AvgLoss(ts),
             profit_factor |-> ProfitFactor(ts),
             max_win |-> IF Len(Winners(ts)) > 0 THEN MaxProfit(Winners(ts)) ELSE 0,
             max_loss |-> IF Len(Losers(ts)) > 0 THEN MinProfit(Losers(ts)) ELSE 0,
             avg_candles_held |-> Rat(SumHeld(ts), Len(ts)),
             total_return_pct |-> TotalReturnTemplate(ts),
             trades |-> ts,
             total_bullish_hammers |-> BullishCount,
             total_bearish_hammers |-> BearishCount,
             total_bullish_buy_signals |-> BuySignalCount,
             total_bearish_sell_signals |-> SellSignalCount,
             buy_trades |-> Len(SelectSeq(ts, IsBuy)),
             sell_trades |-> Len(SelectSeq(ts, IsSell)),
             buy_wins |-> Len(Winners(SelectSeq(ts, IsBuy))),
             sell_wins |-> Len(Winners(SelectSeq(ts, IsSell)))]
      [] variant = "fixed" ->
            [total_trades |-> Len(ts),
             win_rate |-> WinRate(ts),
             profit_factor |-> ProfitFactor(ts),
             total_return |-> TotalReturnFixed(ts),
             avg_win |-> AvgWin(ts),
             avg_loss |-> AvgLoss(ts),
             total_profit |-> SumProfit(ts),
             winners |-> Len(Winners(ts)),
             losers |-> Len(Losers(ts))]
      [] variant = "strategy" ->
            [total_trades |-> Len(ts),
             win_rate |-> WinRate(ts),
             profit_factor |-> ProfitFactor(ts),
             total_return |-> TotalReturnStrategy(ts),
             avg_win |-> AvgWin(ts),
             avg_loss |-> AvgLoss(ts),
             total_profit |-> SumProfit(ts)]
      [] OTHER ->
            [total_patterns |-> BullishCount + BearishCount,
             total_trades |-> Len(ts),
             win_rate |-> WinRate(ts),
             profit_factor |-> ProfitFactor(ts),
             avg_win |-> AvgWin(ts),
             avg_loss |-> AvgLoss(ts),
             winners |-> Len(Winners(ts)),
             losers |-> Len(Losers(ts))]

(***************************************************************************)
(* The live driver: finalBot.py                                            *)
(***************************************************************************)
\* One poller thread per instrument and timeframe; get_position_key joins
\* the two names.  Two of the four keys of CFG, of one instrument, so that
\* both have the precision 2 of INSTRUMENT_PRECISION.  Both pollers read the
\* same candle history, so that both can signal on the same candle.
Keys == {"BTC_USD_M5", "BTC_USD_M15"}

\* 10^precision at precision 2: the price unit in rounding steps.
PrecisionSteps == 10 * 10

\* The candles of the broker are floats of any number of decimals: here of
\* three, one more than the precision.
LiveTicks == 10 * PrecisionSteps

\* One rounding step in ticks.
RoundUnit == LiveTicks \div PrecisionSteps

\* CFG.max_lower_shadow_factor, CFG.min_upper_shadow_ratio.
LiveThresholds == <<40, 250>>

\* `len(df) < CFG.ema_slow + 1` is "not enough data"; ema_slow + 1 is
\* atr_period + 2 in CFG.
MinRows == AtrPeriod + 2

\* CFG.lookback_candles, the count of a fetch: the smallest count that
\* passes the MinRows test.
Lookback == MinRows

\* The flat candle the history starts with.
Quiet == Candle(50, 50, 50, 50)

\* The candles of a moving market: a flat candle, a bullish and a bearish
\* hammer under the thresholds of CFG.
LiveCandles == { Quiet, Candle(80, 100, 20, 100), Candle(70, 130, 50, 50) }

\* The candles of a market that moves by a few ticks: two flat candles and
\* a bearish hammer.
CalmCandles == { Quiet, Candle(51, 51, 51, 51), Candle(51, 54, 50, 50) }

\* The history: a quiet market for the first atr_period candles, then any
\* of the candles, long enough for a candle to be evaluated after an order.
Tapes ==
    { s \in [1 .. (Lookback + 1) -> LiveCandles] \cup [1 .. (Lookback + 1) -> CalmCandles] :
         \A j \in 1 .. AtrPeriod : s[j] = Quiet }

NoOrder == [type |-> "NONE", entry |-> 0, sl |-> 0, tp |-> 0]

\* fetch_ohlc: `for attempt in range(3)` and `if attempt == 2: raise`.
Attempts == 3

LastAttempt == 2

\* No call of fetch_ohlc made yet: attempt is the loop variable of the
\* running call, log the outcomes of the requests of the running or the
\* last call, fetched how the last call ended.
NoFetch == [attempt |-> 0, log |-> << >>, fetched |-> "none"]

\* last_time = None, no frame fetched yet.  evals counts the evaluations of
\* the candle of last_time, repolled tells that a later poll returned it again.
NoLocals ==
    [last_time |-> 0, rows |-> << >>, atr |-> 0, order |-> NoOrder, fetch |-> NoFetch,
     evals |-> 0, repolled |-> FALSE]

\* The driver is not running.
LiveIdle ==
    /\ tape = << >>
    /\ net = "off"
    /\ clock = 0
    /\ lpc = [k \in Keys |-> "off"]
    /\ loc = [k \in Keys |-> NoLocals]
    /\ active_positions = << >>
    /\ orders = {}

\* The completed candles of one fetch: the last Lookback candles, of which
\* the newest is still open unless the fetch falls on a candle boundary.
Completed(has_open) ==
    LET n == IF has_open THEN Lookback - 1 ELSE Lookback
    IN  SubSeq(tape, Max2(1, clock - n + 1), clock)

\* calculate_atr of finalBot: 0.0 on a short frame, the mean of the last
\* period true ranges when that is > 0, else 1.0; times Scale.
calculate_atr(s) ==
    IF Len(s) < AtrPeriod + 1 THEN 0
    ELSE LET atr == 10 * TrSumOf(s, Len(s) - 1, AtrPeriod)
         IN  IF atr > 0 THEN atr ELSE ticks * Scale

\* round(x, precision) of x = n / d rounding steps: the nearest step; on a
\* tie the result depends on the binary representation of x, so either
\* neighbour.
Round(n, d) ==
    LET q == n \div d
        r == n % d
    IN  IF 2 * r < d THEN {q} ELSE IF 2 * r > d THEN {q + 1} ELSE {q, q + 1}

\* The distances round(mult * atr, precision), in rounding steps.
Distances(m_sl, m_tp, atr) ==
    { [sl |-> sl_distance, tp |-> tp_distance] :
        sl_distance \in Round(m_sl * atr, 10 * Scale * RoundUnit),
        tp_distance \in Round(m_tp * atr, 10 * Scale * RoundUnit) }

\* round(entry + distance, precision) for an entry in ticks and a distance
\* in rounding steps, times Scale.
LevelsAt(entry, distance) ==
    { p * RoundUnit * Scale : p \in Round(entry + distance * RoundUnit, RoundUnit) }

\* calculate_dynamic_sl_tp: the rounded distances, then the rounded levels.
calculate_dynamic_sl_tp(entry, atr, trade_type) ==
    IF trade_type = "BUY"
    THEN UNION { { [sl |-> sl_price, tp |-> tp_price] :
                     sl_price \in LevelsAt(entry, -d.sl), tp_price \in LevelsAt(entry, d.tp) } :
                 d \in Distances(mult.buy_sl, mult.buy_tp, atr) }
    ELSE UNION { { [sl |-> sl_price, tp |-> tp_price] :
                     sl_price \in LevelsAt(entry, d.sl), tp_price \in LevelsAt(entry, -d.tp) } :
                 d \in Distances(mult.sell_sl, mult.sell_tp, atr) }

\* A table lookup that never finds the key.
NoPositionSeen(k) == FALSE

\* has_active_position: key in active_positions
has_active_position(k) == k \in DOMAIN active_positions

LastIndex(k) == Len(loc[k].rows) - 1

\* is_bearish_hammer(last) and is_downtrend(last)
LiveSellSignal(k) ==
    bearish_hammer(loc[k].rows, LastIndex(k)) /\ downtrend(loc[k].rows, LastIndex(k))

\* is_bullish_hammer(last) and is_uptrend(last)
LiveBuySignal(k) ==
    bullish_hammer(loc[k].rows, LastIndex(k)) /\ uptrend(loc[k].rows, LastIndex(k))

LiveEntry(k) == loc[k].rows[Len(loc[k].rows)].close

\* A new completed candle.
Tick ==
    /\ variant = "live"
    /\ clock < Len(tape)
    /\ clock' = clock + 1
    /\ UNCHANGED <<backtest, dash, tape, net, lpc, loc, active_positions, orders>>

\* The requests of the call of fetch_ohlc that is running.
RunningLog(k) == IF loc[k].fetch.fetched = "running" THEN loc[k].fetch.log ELSE << >>

\* A failed request is followed by another on any failure.
RetriesAnyFailure(outcome, attempt) == outcome # "ok" /\ attempt # LastAttempt

\* except requests.exceptions.Timeout: if attempt == 2: raise; sleep
Retries(outcome, attempt) == outcome = "timeout" /\ attempt # LastAttempt

\* A request of fetch_ohlc that times out or fails otherwise (an HTTP error
\* status of raise_for_status included): the next attempt, or the exception
\* that ends the call and, in the poller, the pass of the loop.
FetchFails(k) ==
    /\ lpc[k] = "fetch"
    /\ net = "flaky"
    /\ \E outcome \in {"timeout", "error"} :
          LET attempt == loc[k].fetch.attempt
              log == Append(RunningLog(k), outcome)
          IN  loc' = [loc EXCEPT ![k].fetch =
                        IF Retries(outcome, attempt) /\ attempt + 1 < Attempts
                        THEN [attempt |-> attempt + 1, log |-> log, fetched |-> "running"]
                        ELSE [attempt |-> 0, log |-> log,
                              fetched |-> IF outcome = "timeout" THEN "Timeout" ELSE "Error"]]
    /\ UNCHANGED <<backtest, dash, tape, net, clock, lpc, active_positions, orders>>

\* A table of candle times in which every time is new.
NeverSameCandle(k) == FALSE

\* if time_stamp == last_time: the newest completed candle is the one of the
\* last evaluation.
same_candle(k) == clock = loc[k].last_time

\* One pass of the loop up to the ATR: the request of fetch_ohlc that is
\* answered, the two "not enough data" tests, the completed filter, the
\* same-candle test (all of which sleep and start over), then last_time and
\* the ATR.
Poll(k) ==
    /\ lpc[k] = "fetch"
    /\ \E has_open \in BOOLEAN :
          LET rows == Completed(has_open)
              count == Len(rows) + (IF has_open THEN 1 ELSE 0)
              fetch == [attempt |-> 0, log |-> Append(RunningLog(k), "ok"),
                        fetched |-> "frame"]
          IN  IF count < MinRows \/ rows = << >>
              THEN /\ loc' = [loc EXCEPT ![k].fetch = fetch]
                   /\ UNCHANGED lpc
              ELSE IF same_candle(k)
              THEN /\ loc' = [loc EXCEPT ![k].fetch = fetch, ![k].repolled = TRUE]
                   /\ UNCHANGED lpc
              ELSE /\ loc' = [loc EXCEPT ![k] =
                                 [last_time |-> clock, rows |-> rows,
                                  atr |-> calculate_atr(rows), order |-> NoOrder,
                                  fetch |-> fetch,
                                  evals |-> IF clock = loc[k].last_time
                                            THEN loc[k].evals + 1 ELSE 1,
                                  repolled |-> FALSE]]
                   /\ lpc' = [lpc EXCEPT ![k] = "check"]
    /\ UNCHANGED <<backtest, dash, tape, net, clock, active_positions, orders>>

\* if has_active_position(...): sleep, continue
SkipActive(k) ==
    /\ lpc[k] = "check"
    /\ has_active_position(k)
    /\ lpc' = [lpc EXCEPT ![k] = "fetch"]
    /\ UNCHANGED <<backtest, dash, tape, net, clock, loc, active_positions, orders>>

\* The signal branch of one direction: the levels, the test of the levels
\* against the entry, and on success the call of place_market_*.
Signal(k, trade_type) ==
    /\ \E lv \in calculate_dynamic_sl_tp(LiveEntry(k), loc[k].atr, trade_type) :
          LET entry == LiveEntry(k)
              passes == IF trade_type = "SELL"
                        THEN lv.sl <= entry * Scale /\ lv.tp < entry * Scale
                        ELSE lv.sl < entry * Scale /\ lv.tp > entry * Scale
          IN  IF passes
              THEN /\ loc' = [loc EXCEPT ![k].order =
                                 [type |-> trade_type, entry |-> entry * Scale,
                                  sl |-> lv.sl, tp |-> lv.tp]]
                   /\ lpc' = [lpc EXCEPT ![k] = "post"]
              ELSE /\ lpc' = [lpc EXCEPT ![k] = "fetch"]
                   /\ UNCHANGED loc
    /\ UNCHANGED <<backtest, dash, tape, net, clock, active_positions, orders>>

SellSignal(k) ==
    /\ lpc[k] = "check"
    /\ ~has_active_position(k)
    /\ LiveSellSignal(k)
    /\ Signal(k, "SELL")

BuySignal(k) ==
    /\ lpc[k] = "check"
    /\ ~has_active_position(k)
    /\ ~LiveSellSignal(k)
    /\ LiveBuySignal(k)
    /\ Signal(k, "BUY")

NoSignal(k) ==
    /\ lpc[k] = "check"
    /\ ~has_active_position(k)
    /\ ~LiveSellSignal(k)
    /\ ~LiveBuySignal(k)
    /\ lpc' = [lpc EXCEPT ![k] = "fetch"]
    /\ UNCHANGED <<backtest, dash, tape, net, clock, loc, active_positions, orders>>

\* requests.post of place_market_buy_with_sl_tp / place_market_sell_with_sl_tp
\* and the broker's answer: 201, or anything else (an exception included).
\* The log keeps, with each order sent, the candle it was sent on and the
\* keys the table held then.
PostOrder(k) ==
    /\ lpc[k] = "post"
    /\ \E status \in {201, 400} :
          /\ orders' = orders \cup {[key |-> k, time |-> loc[k].last_time,
                                       order |-> loc[k].order, status |-> status,
                                       table |-> DOMAIN active_positions]}
          /\ lpc' = [lpc EXCEPT ![k] = IF status = 201 THEN "add" ELSE "fetch"]
    /\ UNCHANGED <<backtest, dash, tape, net, clock, loc, active_positions>>

\* The 201 branch without the call of add_active_position.
AddForgets(k) ==
    /\ lpc[k] = "add"
    /\ lpc' = [lpc EXCEPT ![k] = "fetch"]
    /\ UNCHANGED <<backtest, dash, tape, net, clock, loc, active_positions, orders>>

\* add_active_position after a 201.
AddPosition(k) ==
    /\ lpc[k] = "add"
    /\ active_positions' =
          [j \in DOMAIN active_positions \cup {k} |->
              IF j = k THEN [type |-> loc[k].order.type, entry |-> loc[k].order.entry]
              ELSE active_positions[j]]
    /\ lpc' = [lpc EXCEPT ![k] = "fetch"]
    /\ UNCHANGED <<backtest, dash, tape, net, clock, loc, orders>>

LiveNext ==
    \/ Tick
    \/ \E k \in Keys : FetchFails(k)
    \/ \E k \in Keys : Poll(k)
    \/ \E k \in Keys : SkipActive(k)
    \/ \E k \in Keys : SellSignal(k)
    \/ \E k \in Keys : BuySignal(k)
    \/ \E k \in Keys : NoSignal(k)
    \/ \E k \in Keys : PostOrder(k)
    \/ \E k \in Keys : AddPosition(k)

(***************************************************************************)
(* The dashboard (backend.py; backend_enhanced.py has the same handlers).  *)
(* A request names a position by instrument and timeframe, here one key.   *)
(* Amounts are whole numbers, win_rate is in tenths of a percent.          *)
(***************************************************************************)
\* A JSON null and a JSON number.
None == << >>
Num(v) == <<v>>

DashKeys == {"EUR_USD_M5", "BTC_USD_M15"}

RecentMaxLen == 100

NoBody == [json |-> FALSE]

\* The bodies of /api/trade, /api/position-update and /api/trade-close.
TradeBodies == { [json |-> TRUE, key |-> k] : k \in DashKeys }
UpdateBodies == { [json |-> TRUE, key |-> k, pnl |-> p] : k \in DashKeys, p \in {None, Num(2)} }
CloseBodies == { [json |-> TRUE, key |-> k, pnl |-> p] : k \in DashKeys, p \in {None, Num(0), Num(1)} }

\* The trades a history can hold: open ones, closed ones with a profit, a
\* loss or a null pnl.
HistoryTrades ==
    { [key |-> k, pnl |-> Num(0), status |-> "OPEN"] : k \in DashKeys }
    \cup { [key |-> "EUR_USD_M5", pnl |-> p, status |-> "CLOSED"] : p \in {None, Num(1), Num(0 - 1)} }

Histories == UNION { [1..n -> HistoryTrades] : n \in 0..HistoryLen }

HistoryBodies == { [json |-> TRUE, trades |-> h] : h \in Histories }

\* bot_state as the module creates it.
InitialState ==
    [floating_pnl |-> 0, open_positions |-> 0, total_trades |-> 0,
     winning_trades |-> 0, losing_trades |-> 0, win_rate |-> 0,
     active_positions |-> << >>, recent_trades |-> << >>]

NoResponse == [handler |-> "none", status |-> 0, nth |-> 0]

DashIdle ==
    /\ bot_state = InitialState
    /\ objects = << >>
    /\ response = NoResponse

\* The handler returns.
Responds(handler, status) ==
    response' = [handler |-> handler, status |-> status, nth |-> response.nth + 1]

\* deque(maxlen = 100).append
Appended(q, x) == IF Len(q) = RecentMaxLen THEN Append(Tail(q), x) ELSE Append(q, x)

\* The first active position of the request's instrument and timeframe, 0
\* if there is none.
FirstMatch(key) ==
    LET active == bot_state.active_positions
        matches == { p \in 1..Len(active) : objects[active[p]].key = key }
    IN  IF matches = {} THEN 0 ELSE CHOOSE p \in matches : \A q \in matches : p <= q

\* sum(p.get("pnl", 0) for p in active_positions): a null pnl raises.
Summable(objs, active) == \A p \in 1..Len(active) : objs[active[p]].pnl # None

RECURSIVE SumPnl(_, _)
SumPnl(objs, active) ==
    IF active = << >> THEN 0 ELSE objs[Head(active)].pnl[1] + SumPnl(objs, Tail(active))

\* round(n / d * 100, 1) in tenths, halves to the even digit.
RoundedRate(n, d) ==
    LET q == (1000 * n) \div d
        r == (1000 * n) % d
    IN  IF 2 * r < d THEN q
        ELSE IF 2 * r > d THEN q + 1
        ELSE IF q % 2 = 0 THEN q ELSE q + 1

\* The win rate is written when a closed trade is counted.
WithWinRate(s) ==
    LET total == s.winning_trades + s.losing_trades
    IN  IF total > 0 THEN [s EXCEPT !.win_rate = RoundedRate(s.winning_trades, total)] ELSE s

receive_trade(data) ==
    /\ response.nth < MaxRequests
    /\ IF ~data.json
       THEN /\ Responds("receive_trade", 500)
            /\ UNCHANGED <<bot_state, objects>>
       ELSE LET id == Len(objects) + 1
                active == Append(bot_state.active_positions, id)
            IN  /\ objects' = Append(objects, [key |-> data.key, pnl |-> Num(0), status |-> "OPEN"])
                /\ bot_state' = [bot_state EXCEPT !.active_positions = active,
                                                  !.open_positions = Len(active),
                                                  !.total_trades = @ + 1,
                                                  !.recent_trades = Appended(@, id)]
                /\ Responds("receive_trade", 200)
    /\ UNCHANGED <<backtest, live>>

update_position(data) ==
    /\ response.nth < MaxRequests
    /\ IF ~data.json
       THEN /\ Responds("update_position", 500)
            /\ UNCHANGED <<bot_state, objects>>
       ELSE LET active == bot_state.active_positions
                p == FirstMatch(data.key)
                objs == IF p = 0 THEN objects
                        ELSE [objects EXCEPT ![active[p]].pnl = data.pnl]
            IN  /\ objects' = objs
                /\ IF Summable(objs, active)
                   THEN /\ bot_state' = [bot_state EXCEPT !.floating_pnl = SumPnl(objs, active)]
                        /\ Responds("update_position", 200)
                   ELSE /\ UNCHANGED bot_state
                        /\ Responds("update_position", 500)
    /\ UNCHANGED <<backtest, live>>

\* close_trade after its loop: the metrics, up to the sum that can raise.
CloseMetrics(s, objs) ==
    LET counted == [s EXCEPT !.open_positions = Len(s.active_positions)]
    IN  IF Summable(objs, counted.active_positions)
        THEN [state |-> WithWinRate([counted EXCEPT !.floating_pnl =
                                        SumPnl(objs, counted.active_positions)]),
              status |-> 200]
        ELSE [state |-> counted, status |-> 500]

close_trade(data) ==
    /\ response.nth < MaxRequests
    /\ IF ~data.json
       THEN /\ Responds("close_trade", 500)
            /\ UNCHANGED <<bot_state, objects>>
       ELSE LET active == bot_state.active_positions
                p == FirstMatch(data.key)
            IN  IF p = 0
                THEN LET done == CloseMetrics(bot_state, objects)
                     IN  /\ bot_state' = done.state
                         /\ Responds("close_trade", done.status)
                         /\ UNCHANGED objects
                ELSE LET id == active[p]
                         objs == [objects EXCEPT ![id].pnl = data.pnl, ![id].status = "CLOSED"]
                         moved == [bot_state EXCEPT
                                      !.winning_trades = IF data.pnl[1] > 0 THEN @ + 1 ELSE @,
                                      !.losing_trades = IF data.pnl[1] > 0 THEN @ ELSE @ + 1,
                                      !.recent_trades = Appended(@, id),
                                      !.active_positions =
                                          SubSeq(active, 1, p - 1) \o SubSeq(active, p + 1, Len(active))]
                         done == CloseMetrics(moved, objs)
                     IN  /\ objects' = objs
                         /\ IF data.pnl = None
                            THEN /\ UNCHANGED bot_state
                                 /\ Responds("close_trade", 500)
                            ELSE /\ bot_state' = done.state
                                 /\ Responds("close_trade", done.status)
    /\ UNCHANGED <<backtest, live>>

\* The loop of load_history over the trades of the request: raised tells
\* that a closed trade with a null pnl stopped it.
RECURSIVE LoadFrom(_, _, _)
LoadFrom(s, objs, rest) ==
    IF rest = << >> THEN [state |-> s, objects |-> objs, raised |-> FALSE]
    ELSE LET trade == Head(rest)
             id == Len(objs) + 1
             kept == Append(objs, trade)
             counted == [s EXCEPT !.recent_trades = Appended(@, id), !.total_trades = @ + 1]
         IN  IF trade.status = "CLOSED"
             THEN IF trade.pnl = None
                  THEN [state |-> counted, objects |-> kept, raised |-> TRUE]
                  ELSE IF trade.pnl[1] > 0
                  THEN LoadFrom([counted EXCEPT !.winning_trades = @ + 1], kept, Tail(rest))
                  ELSE LoadFrom([counted EXCEPT !.losing_trades = @ + 1], kept, Tail(rest))
             ELSE IF trade.status = "OPEN"
             THEN LoadFrom([counted EXCEPT !.active_positions = Append(@, id)], kept, Tail(rest))
             ELSE LoadFrom(counted, kept, Tail(rest))

load_history(data) ==
    /\ response.nth < MaxRequests
    /\ IF ~data.json
       THEN /\ Responds("load_history", 500)
            /\ UNCHANGED <<bot_state, objects>>
       ELSE LET cleared == [bot_state EXCEPT !.recent_trades = << >>,
                                             !.active_positions = << >>,
                                             !.total_trades = 0,
                                             !.winning_trades = 0,
                                             !.losing_trades = 0]
                loaded == LoadFrom(cleared, << >>, data.trades)
            IN  /\ objects' = loaded.objects
                /\ IF loaded.raised
                   THEN /\ bot_state' = loaded.state
                        /\ Responds("load_history", 500)
                   ELSE /\ bot_state' = WithWinRate([loaded.state EXCEPT !.open_positions =
                                                        Len(loaded.state.active_positions)])
                        /\ Responds("load_history", 200)
    /\ UNCHANGED <<backtest, live>>

DashNext ==
    \/ \E data \in TradeBodies \cup {NoBody} : receive_trade(data)
    \/ \E data \in UpdateBodies \cup {NoBody} : update_position(data)
    \/ \E data \in CloseBodies \cup {NoBody} : close_trade(data)
    \/ \E data \in HistoryBodies \cup {NoBody} : load_history(data)

(***************************************************************************)
(* The backtest call as a state machine                                    *)
(***************************************************************************)
Init ==
    /\ \/ ticks = 1 /\ df \in AllSeries \cup LongSeries \cup TrendSeries
       \/ ticks = 5 /\ df \in UnitAtrSeries
       \/ ticks = FineTicks /\ df \in FineSeries
    \* the column sets vary on the series too short for the loop to run
    /\ columns \in (IF Len(df) <= StartIndex THEN ColumnSets ELSE {RequiredCols})
    /\ variant \in Variants
    /\ use_atr \in (IF variant = "template" THEN BOOLEAN ELSE {TRUE})
    /\ use_trend_filter \in (IF variant = "pattern" THEN BOOLEAN ELSE {FALSE})
    /\ mult \in (CASE variant = "template" -> {TemplateMults}
                   [] variant = "pattern" -> {PatternDefaults}
                   [] OTHER -> TestParams)
    /\ thresholds \in (IF variant = "pattern" THEN ThresholdChoices ELSE {DefaultThresholds})
    /\ pc = "start"
    /\ i = 0
    /\ trades = << >>
    /\ stats = EmptyDict
    /\ LiveIdle
    /\ DashIdle

\* The required_cols test of backtest_vectorized and backtest_with_params.
HasColumnCheck == variant # "pattern"

\* raise ValueError("Missing required columns ...")
RejectMissingColumns ==
    /\ pc = "start"
    /\ HasColumnCheck
    /\ ~(RequiredCols \subseteq columns)
    /\ pc' = "raised"
    /\ UNCHANGED <<live, dash, inputs, i, trades, stats>>

\* backtest_with_pattern_params has no test; reading an absent price column
\* in compute_emas raises KeyError.
KeyErrorOnColumn ==
    /\ pc = "start"
    /\ ~HasColumnCheck
    /\ ~({"open", "high", "low", "close"} \subseteq columns)
    /\ pc' = "raised"
    /\ UNCHANGED <<live, dash, inputs, i, trades, stats>>

\* The same with the loop started at the first row.
ComputeIndicatorsFromZero ==
    /\ pc = "start"
    /\ IF HasColumnCheck THEN RequiredCols \subseteq columns
                         ELSE {"open", "high", "low", "close"} \subseteq columns
    /\ pc' = "loop"
    /\ i' = 0
    /\ UNCHANGED <<live, dash, inputs, trades, stats>>

\* Indicators, patterns and signals are computed (the operators above) and
\* the loop `for i in range(StartIndex, len(df))` starts.
ComputeIndicators ==
    /\ pc = "start"
    /\ IF HasColumnCheck THEN RequiredCols \subseteq columns
                         ELSE {"open", "high", "low", "close"} \subseteq columns
    /\ pc' = "loop"
    /\ i' = StartIndex
    /\ UNCHANGED <<live, dash, inputs, trades, stats>>

\* One iteration on a signal row: levels, forward scan, append on exit.
SignalIteration(type) ==
    /\ ~SignalSkipped(i)
    /\ LET ex == FindExit(type, i)
       IN  trades' = IF ex.found THEN Append(trades, Trade(type, i, ex)) ELSE trades
    /\ i' = i + 1
    /\ UNCHANGED <<live, dash, inputs, pc, stats>>

BuyIteration ==
    /\ pc = "loop"
    /\ i < N
    /\ buy_signal(i)
    /\ SignalIteration("BUY")

SellIteration ==
    /\ pc = "loop"
    /\ i < N
    /\ ~buy_signal(i)
    /\ sell_signal(i)
    /\ SignalIteration("SELL")

\* `continue` on a signal row whose atr is not > 0.
SkipIteration ==
    /\ pc = "loop"
    /\ i < N
    /\ buy_signal(i) \/ sell_signal(i)
    /\ SignalSkipped(i)
    /\ i' = i + 1
    /\ UNCHANGED <<live, dash, inputs, pc, trades, stats>>

NoSignalIteration ==
    /\ pc = "loop"
    /\ i < N
    /\ ~buy_signal(i)
    /\ ~sell_signal(i)
    /\ i' = i + 1
    /\ UNCHANGED <<live, dash, inputs, pc, trades, stats>>

\* `if not trades: return ...`
ReturnEmpty ==
    /\ pc = "loop"
    /\ i >= N
    /\ trades = << >>
    /\ stats' = EmptyReport
    /\ pc' = "done"
    /\ UNCHANGED <<live, dash, inputs, i, trades>>

ReturnStats ==
    /\ pc = "loop"
    /\ i >= N
    /\ trades # << >>
    /\ stats' = Report(trades)
    /\ pc' = "done"
    /\ UNCHANGED <<live, dash, inputs, i, trades>>

Next ==
    \/ RejectMissingColumns
    \/ KeyErrorOnColumn
    \/ ComputeIndicators
    \/ BuyIteration
    \/ SellIteration
    \/ SkipIteration
    \/ NoSignalIteration
    \/ ReturnEmpty
    \/ ReturnStats

Spec == Init /\ [][Next]_vars

(***************************************************************************)
(* run_all: the pollers start on some history of the broker.  Either every *)
(* request is answered and both pollers run, or requests can fail and one  *)
(* poller has come to run.                                                 *)
(***************************************************************************)
LiveInit ==
    /\ df = << >>
    /\ ticks = LiveTicks
    /\ columns = RequiredCols
    /\ variant = "live"
    /\ use_atr = TRUE
    /\ use_trend_filter = TRUE
    /\ mult = PatternDefaults
    /\ thresholds = LiveThresholds
    /\ pc = "live"
    /\ i = 0
    /\ trades = << >>
    /\ stats = EmptyDict
    /\ tape \in Tapes
    /\ clock = 0
    /\ \/ net = "up" /\ lpc = [k \in Keys |-> "fetch"]
       \/ net = "flaky" /\ \E started \in Keys :
                               lpc = [k \in Keys |-> IF k = started THEN "fetch" ELSE "off"]
    /\ loc = [k \in Keys |-> NoLocals]
    /\ active_positions = << >>
    /\ orders = {}
    /\ DashIdle

LiveSpec == LiveInit /\ [][LiveNext]_vars

(***************************************************************************)
(* The dashboard serves requests, one at a time, from its initial state.   *)
(***************************************************************************)
DashInit ==
    /\ df = << >>
    /\ ticks = 1
    /\ columns = RequiredCols
    /\ variant = "dashboard"
    /\ use_atr = TRUE
    /\ use_trend_filter = FALSE
    /\ mult = PatternDefaults
    /\ thresholds = DefaultThresholds
    /\ pc = "dashboard"
    /\ i = 0
    /\ trades = << >>
    /\ stats = EmptyDict
    /\ LiveIdle
    /\ DashIdle

DashSpec == DashInit /\ [][DashNext]_vars



(***************************************************************************)
(* Properties                                                              *)
(***************************************************************************)
TradeIndices == 1 .. Len(trades)

\* The touch conditions as the specification words them, on the levels
\* stored in the trade.
TakeTouched(t, j) ==
    IF t.type = "BUY" THEN Row(j).high * Scale >= t.tp ELSE Row(j).low * Scale <= t.tp

StopTouched(t, j) ==
    IF t.type = "BUY" THEN Row(j).low * Scale <= t.sl ELSE Row(j).high * Scale >= t.sl

\* C1: in one backtest run no trade is entered at a signal candle whose
\* index lies strictly between the entry index and the exit index of an
\* earlier trade of the same run (no two simulated trades open at once).
C1_NoOverlappingTrades ==
    \A a, b \in TradeIndices :
        a < b => ~(/\ trades[a].entry_idx < trades[b].entry_idx
                   /\ trades[b].entry_idx < trades[a].exit_idx)

\* C2: the exit row of every trade is the lowest-index row after the signal
\* row, inside the scan window, that touches the take or the stop level; no
\* row between them touches either level, and the recorded outcome is a
\* level touched at the exit row.
C2_ExitIsFirstTouch ==
    \A a \in TradeIndices :
        LET t == trades[a]
        IN  /\ t.exit_idx > t.entry_idx
            /\ t.exit_idx < t.entry_idx + Lookahead
            /\ t.exit_idx < N
            /\ TakeTouched(t, t.exit_idx) \/ StopTouched(t, t.exit_idx)
            /\ \A m \in (t.entry_idx + 1) .. (t.exit_idx - 1) :
                   ~TakeTouched(t, m) /\ ~StopTouched(t, m)
            /\ t.hit_tp => TakeTouched(t, t.exit_idx)
            /\ ~t.hit_tp => StopTouched(t, t.exit_idx)

\* A trade whose exit was found after a row that touched neither level.
C2_Witness ==
    \E a \in TradeIndices : trades[a].exit_idx >= trades[a].entry_idx + 2

\* C3: every recorded trade's profit has the sign of its outcome: > 0 on a
\* take-profit exit, < 0 on a stop-loss exit, for Buy and for Sell.
C3_ProfitSignMatchesOutcome ==
    \A a \in TradeIndices :
        /\ trades[a].hit_tp => trades[a].profit > 0
        /\ ~trades[a].hit_tp => trades[a].profit < 0

\* C4: a signal candle whose ATR is <= 0 or undefined never produces a
\* trade, in every variant, backtest_vectorized with use_atr=True included.
C4_NoTradeWithoutPositiveAtr ==
    use_atr => \A a \in TradeIndices : AtrPositive(trades[a].entry_idx)

RatIsZero(r) == r.num = 0 /\ r.den # 0

RatEquals(r, n, d) == r.den # 0 /\ d # 0 /\ r.num * d = n * r.den

\* C5: for a non-empty trade list profit_factor is the infinite sentinel
\* when there is a winner and no loser, 0 when there is no winner, and
\* sum(winning profits) / |sum(losing profits)| otherwise.
C5_ProfitFactorDefined ==
    (pc = "done" /\ trades # << >>) =>
        LET wins == {a \in TradeIndices : trades[a].profit > 0}
            losses == {a \in TradeIndices : trades[a].profit <= 0}
        IN  IF wins # {} /\ losses = {} THEN stats.profit_factor = Infinity
            ELSE IF wins = {} THEN RatIsZero(stats.profit_factor)
            ELSE RatEquals(stats.profit_factor,
                           SumProfit(Winners(trades)), Abs(SumProfit(Losers(trades))))

ReportFields == {"total_trades", "win_rate", "profit_factor", "avg_win", "avg_loss"}

HasField(d, f) == \E g \in DOMAIN d : g = f

\* C6: a backtest that produces no trades returns a report in which the
\* rate and factor fields are present with their zero values.
C6_EmptyReportComplete ==
    (pc = "done" /\ trades = << >>) =>
        /\ \A f \in ReportFields : HasField(stats, f)
        /\ stats.total_trades = 0
        /\ RatIsZero(stats.win_rate)
        /\ RatIsZero(stats.profit_factor)
        /\ RatIsZero(stats.avg_win)
        /\ RatIsZero(stats.avg_loss)

\* The two counts of a report: win_count/loss_count in backtest_vectorized,
\* winners/losers in optimize_fixed and patternOptimizer.
HasCounts == variant \in {"template", "fixed", "pattern"}

ReportedWins == IF variant = "template" THEN stats.win_count ELSE stats.winners

ReportedLosses == IF variant = "template" THEN stats.loss_count ELSE stats.losers

\* C7: in every non-empty report the winners (profit > 0) and the losers
\* (profit <= 0, break-even included) partition the trade list:
\* win_count + loss_count = total_trades, and 0 <= win_rate <= 100.
C7_WinLossPartition ==
    (pc = "done" /\ trades # << >>) =>
        /\ stats.total_trades = Len(trades)
        /\ stats.win_rate.den > 0
        /\ 0 <= stats.win_rate.num
        /\ stats.win_rate.num <= 100 * stats.win_rate.den
        /\ stats.win_rate.num * stats.total_trades
             = 100 * Cardinality({a \in TradeIndices : trades[a].profit > 0}) * stats.win_rate.den
        /\ HasCounts =>
             /\ ReportedWins = Cardinality({a \in TradeIndices : trades[a].profit > 0})
             /\ ReportedLosses = Cardinality({a \in TradeIndices : trades[a].profit <= 0})
             /\ ReportedWins + ReportedLosses = stats.total_trades

\* A finished report over a list that holds a winner and a break-even trade.
C7_Witness ==
    /\ pc = "done"
    /\ HasCounts
    /\ \E a \in TradeIndices : trades[a].profit = 0
    /\ \E a \in TradeIndices : trades[a].profit > 0

Malformed ==
    \/ ~(RequiredCols \subseteq columns)
    \/ \E k \in Rows : Row(k).high < Row(k).low

\* C8: a call whose input lacks a required OHLCV column or holds a candle
\* with high < low is rejected before any indicator, pattern or trade is
\* computed; no partial result is produced.
C8_MalformedInputRejected ==
    Malformed => (pc \in {"start", "raised"} /\ trades = << >> /\ stats = EmptyDict)

AtrLevels(t) ==
    LET dist == TrSum(t.entry_idx, AtrPeriod)
    IN  IF t.type = "BUY"
        THEN /\ t.sl = t.entry_price - mult.buy_sl * dist
             /\ t.tp = t.entry_price + mult.buy_tp * dist
        ELSE /\ t.sl = t.entry_price + mult.sell_sl * dist
             /\ t.tp = t.entry_price - mult.sell_tp * dist

FixedLevels(t) ==
    IF t.type = "BUY"
    THEN /\ t.sl = t.entry_price - 5 * ticks * Scale
         /\ t.tp = t.entry_price + 10 * ticks * Scale
    ELSE /\ t.sl = t.entry_price + 10 * ticks * Scale
         /\ t.tp = t.entry_price - 20 * ticks * Scale

LevelsOrdered(t) ==
    IF t.type = "BUY"
    THEN t.sl < t.entry_price /\ t.entry_price < t.tp
    ELSE t.tp < t.entry_price /\ t.entry_price < t.sl

\* C9 as claimed: every simulated trade enters at the close of its signal
\* candle and has stop and take at sl_multiple and tp_multiple times the
\* ATR of the signal candle from the entry, on the losing and the winning
\* side, so that stop < entry < take (Buy) and take < entry < stop (Sell).
C9_LevelsFromAtr ==
    \A a \in TradeIndices :
        LET t == trades[a]
        IN  /\ t.entry_price = Row(t.entry_idx).close * Scale
            /\ AtrLevels(t)
            /\ LevelsOrdered(t)

\* C9 as amended: the ATR formulas hold for every trade of optimize_fixed,
\* optimize_strategy and patternOptimizer, and of backtest_vectorized when
\* use_atr is true and the signal candle's ATR is > 0; every other trade of
\* backtest_vectorized has the fixed distances 5/10 (Buy) and 10/20 (Sell).
\* In both cases the levels are ordered around the entry.
C9_LevelsFromAtrOrFixed ==
    \A a \in TradeIndices :
        LET t == trades[a]
        IN  /\ t.entry_price = Row(t.entry_idx).close * Scale
            /\ IF variant # "template" \/ (use_atr /\ AtrPositive(t.entry_idx))
               THEN AtrPositive(t.entry_idx) /\ AtrLevels(t)
               ELSE FixedLevels(t)
            /\ LevelsOrdered(t)

\* A run with ATR-derived levels that has recorded a Buy and a Sell trade.
C9_Witness ==
    /\ use_atr
    /\ \E a \in TradeIndices :
           trades[a].type = "BUY" /\ AtrPositive(trades[a].entry_idx)
    /\ \E a \in TradeIndices :
           trades[a].type = "SELL" /\ AtrPositive(trades[a].entry_idx)

\* C10: in the multiple-based variants the profit of a trade is exactly
\* +tp_multiple * ATR(signal candle) on a take-profit exit and exactly
\* -sl_multiple * ATR(signal candle) on a stop-loss exit.
C10_ProfitIsAtrMultiple ==
    variant \in {"fixed", "strategy", "pattern"} =>
        \A a \in TradeIndices :
            LET t == trades[a]
                dist == TrSum(t.entry_idx, AtrPeriod)
            IN  t.profit =
                  IF t.type = "BUY"
                  THEN (IF t.hit_tp THEN mult.buy_tp * dist ELSE -(mult.buy_sl * dist))
                  ELSE (IF t.hit_tp THEN mult.sell_tp * dist ELSE -(mult.sell_sl * dist))


(***************************************************************************)
(* The indices the loop has finished: every k in StartIndex .. i - 1.      *)
(***************************************************************************)
Processed == IF pc \in {"loop", "done"} THEN StartIndex .. (i - 1) ELSE {}

SignalType(k) == IF buy_signal(k) THEN "BUY" ELSE "SELL"

\* The signal rows for which the loop reached the forward scan.
EvaluatedSignals ==
    { k \in Processed : (buy_signal(k) \/ sell_signal(k)) /\ ~SignalSkipped(k) }

Touched(k, j) ==
    \/ TouchesTp(SignalType(k), j, TakeLevel(SignalType(k), k))
    \/ TouchesSl(SignalType(k), j, StopLevel(SignalType(k), k))

\* The rows i+1 .. i+Lookahead that exist in the series.
LookaheadRows(k) == { j \in Rows : k + 1 <= j /\ j <= k + Lookahead }

(***************************************************************************)
(* C11: the forward scan of a signal at row k examines the rows k+1 ..     *)
(* k+Lookahead: whenever one of them touches a level of the signal, the    *)
(* signal is resolved into a trade, and a trade is held between 1 and      *)
(* Lookahead candles.                                                      *)
(***************************************************************************)
C11_ScanCoversLookahead ==
    /\ \A k \in EvaluatedSignals :
          (\E j \in LookaheadRows(k) : Touched(k, j))
              => \E a \in TradeIndices : trades[a].entry_idx = k
    /\ \A a \in TradeIndices :
          trades[a].candles_held \in 1 .. Lookahead

\* The integer count fields of the reports, and the name the count of
\* unresolved signals would have.
CountFields ==
    {"total_trades", "win_count", "loss_count", "winners", "losers",
     "buy_trades", "sell_trades", "buy_wins", "sell_wins", "total_patterns",
     "total_bullish_hammers", "total_bearish_hammers",
     "total_bullish_buy_signals", "total_bearish_sell_signals",
     "no_exit_count"}

NoExitCount == Cardinality(EvaluatedSignals) - Len(trades)

(***************************************************************************)
(* C12: the report of a finished run with trades accounts for every        *)
(* evaluated signal: it has total_trades and a count field holding the     *)
(* number of evaluated signals that found no exit, so that signals         *)
(* evaluated = total_trades + no-exit count.                               *)
(***************************************************************************)
C12_SignalsAccountedFor ==
    (pc = "done" /\ trades # << >>) =>
        /\ HasField(stats, "total_trades")
        /\ stats.total_trades = Len(trades)
        /\ \E f \in (CountFields \ {"total_trades"}) \cap DOMAIN stats :
              stats[f] = NoExitCount

\* df.apply(is_bullish_hammer, axis=1) and its bearish twin have run.
PatternsComputed == pc \in {"loop", "done"}

(***************************************************************************)
(* C13: no row is classified both a bullish and a bearish hammer, and a    *)
(* row with close = open is classified neither, whatever the thresholds    *)
(* and the classifier copy.                                                *)
(***************************************************************************)
C13_NeverBothNeitherOnEqual ==
    PatternsComputed =>
        \A k \in Rows :
            /\ ~(is_bullish_hammer(k) /\ is_bearish_hammer(k))
            /\ Row(k).close = Row(k).open =>
                  ~is_bullish_hammer(k) /\ ~is_bearish_hammer(k)

\* The patterns have been computed on a series holding a bullish hammer, a
\* bearish hammer and a candle with close = open.
C13_Witness ==
    /\ pc = "loop"
    /\ \E j \in Rows : is_bullish_hammer(j)
    /\ \E k \in Rows : is_bearish_hammer(k)
    /\ \E l \in Rows : Row(l).close = Row(l).open

\* The predicate of the specification: the sign of the body, the epsilon
\* test (body not below 0.0001) and the two shadow tests.
BullishBySpec(k) ==
    LET r == Row(k)
        body == r.close - r.open
    IN  /\ r.close > r.open
        /\ body * 10000 >= ticks
        /\ (r.high - r.close) * 100 <= Factor * body
        /\ (r.open - r.low) * 100 >= Ratio * body

BearishBySpec(k) ==
    LET r == Row(k)
        body == r.open - r.close
    IN  /\ r.close < r.open
        /\ body * 10000 >= ticks
        /\ (r.close - r.low) * 100 <= Factor * body
        /\ (r.high - r.open) * 100 >= Ratio * body

(***************************************************************************)
(* C14: in every classifier copy a row is a bullish (bearish) hammer iff   *)
(* it has the body sign, a body not below the epsilon, an opposite shadow  *)
(* of at most factor * body and a confirming shadow of at least            *)
(* ratio * body.                                                           *)
(***************************************************************************)
C14_ClassifierPredicate ==
    PatternsComputed =>
        \A k \in Rows :
            /\ is_bullish_hammer(k) <=> BullishBySpec(k)
            /\ is_bearish_hammer(k) <=> BearishBySpec(k)

Reversed(s) == [j \in 1 .. Len(s) |-> s[Len(s) + 1 - j]]

\* The classification of row m of the series s.
ClassOf(s, m) ==
    IF bullish_hammer(s, m) THEN (IF bearish_hammer(s, m) THEN "both" ELSE "bullish")
    ELSE (IF bearish_hammer(s, m) THEN "bearish" ELSE "none")

\* The state in which the pattern columns have just been filled; the series
\* and the thresholds never change afterwards.
PatternsJustComputed == pc = "loop" /\ i = StartIndex

(***************************************************************************)
(* C15: the classification of a row depends only on the row and the        *)
(* thresholds: the same row receives the same bullish / bearish / none     *)
(* classification at every position of every series that contains it.      *)
(***************************************************************************)
C15_ClassificationOfRowOnly ==
    PatternsJustComputed =>
        LET permuted == Reversed(df)
            duplicated == df \o df
            extended == [c \in ScanCandles |-> << c >> \o df]
        IN  \A k \in Rows :
                LET class == ClassOf(df, k)
                IN  \* every other row removed
                    /\ ClassOf(<< Row(k) >>, 0) = class
                    \* the rows permuted
                    /\ ClassOf(permuted, N - 1 - k) = class
                    \* the rows duplicated
                    /\ ClassOf(duplicated, k) = class
                    /\ ClassOf(duplicated, N + k) = class
                    \* a row added in front
                    /\ \A c \in ScanCandles : ClassOf(extended[c], k + 1) = class
                    \* the same row elsewhere in the series
                    /\ \A j \in Rows : Row(j) = Row(k) => ClassOf(df, j) = class

\* A bearish hammer that occurs twice in the series, after a different row.
C15_Witness ==
    /\ PatternsJustComputed
    /\ \E j, k \in Rows :
          /\ 0 < j /\ j < k
          /\ Row(j) = Row(k)
          /\ Row(j - 1) # Row(k - 1)
          /\ is_bearish_hammer(k)

\* a/b < c/d for a, c >= 0 and b, d > 0, by integer parts and the remainders'
\* reciprocals (no product of the two denominators is formed).
RECURSIVE RatLess(_, _, _, _)
RatLess(a, b, c, d) ==
    LET qa == a \div b
        qc == c \div d
        ra == a % b
        rc == c % d
    IN  IF qa # qc THEN qa < qc
        ELSE IF rc = 0 THEN FALSE
        ELSE IF ra = 0 THEN TRUE
        ELSE RatLess(d, rc, b, ra)

\* The exponential average in closed form: with a = 2/(p+1),
\* EMA_k = (1-a)^k c_0 + sum over j in 1..k of a (1-a)^(k-j) c_j; the value
\* times (p+1)^k, summed from row j upwards.
RECURSIVE EmaTerms(_, _, _)
EmaTerms(p, k, j) ==
    IF j > k THEN 0
    ELSE 2 * Pow(p - 1, k - j) * Pow(p + 1, j - 1) * Row(j).close + EmaTerms(p, k, j + 1)

EmaClosed(p, k) == Rat(Pow(p - 1, k) * Row(0).close + EmaTerms(p, k, 1), Pow(p + 1, k))

EmaFast(k) == EmaClosed(EmaFastPeriod, k)

EmaSlow(k) == EmaClosed(EmaSlowPeriod, k)

EmaLower(k) ==
    IF RatLess(EmaFast(k).num, EmaFast(k).den, EmaSlow(k).num, EmaSlow(k).den)
    THEN EmaFast(k) ELSE EmaSlow(k)

EmaUpper(k) ==
    IF RatLess(EmaFast(k).num, EmaFast(k).den, EmaSlow(k).num, EmaSlow(k).den)
    THEN EmaSlow(k) ELSE EmaFast(k)

TrendFilterOn == variant = "pattern" /\ use_trend_filter

(***************************************************************************)
(* C16: with the trend filter on, a row is a Buy signal iff it is a        *)
(* bullish hammer with close > min(EMA fast, EMA slow) and a Sell signal   *)
(* iff it is a bearish hammer with close < max(EMA fast, EMA slow); with   *)
(* the filter off the signals are the classifications.                     *)
(***************************************************************************)
C16_SignalsFromTrendFilter ==
    PatternsJustComputed =>
        \A k \in Rows :
            IF TrendFilterOn
            THEN /\ buy_signal(k) <=>
                       /\ is_bullish_hammer(k)
                       /\ Row(k).close * EmaLower(k).den > EmaLower(k).num
                 /\ sell_signal(k) <=>
                       /\ is_bearish_hammer(k)
                       /\ Row(k).close * EmaUpper(k).den < EmaUpper(k).num
            ELSE /\ buy_signal(k) <=> is_bullish_hammer(k)
                 /\ sell_signal(k) <=> is_bearish_hammer(k)

\* The filter is on and a bullish hammer that closes between the two
\* averages is a Buy signal.
C16_Witness ==
    /\ PatternsJustComputed
    /\ TrendFilterOn
    /\ \E k \in Rows :
          /\ is_bullish_hammer(k)
          /\ buy_signal(k)
          /\ ~CloseAboveEma(EmaFastPeriod, k) \/ ~CloseAboveEma(EmaSlowPeriod, k)

\* The series S of which df is an extension: its first m rows.
Prefix(m) == SubSeq(df, 1, m)

(***************************************************************************)
(* C18: for every prefix S of the series, the true range, the ATR and the  *)
(* two exponential averages computed for S alone are, at every index of S, *)
(* the values computed for the whole series.                               *)
(***************************************************************************)
C18_IndicatorsOfPrefix ==
    PatternsJustComputed =>
        \A m \in 1 .. N : \A k \in 0 .. (m - 1) :
            /\ TrueRangeOf(Prefix(m), k) = TrueRange(k)
            /\ k >= AtrPeriod - 1 =>
                  TrSumOf(Prefix(m), k, AtrPeriod) = TrSum(k, AtrPeriod)
            /\ EmaNumOf(Prefix(m), EmaFastPeriod, k) = EmaNum(EmaFastPeriod, k)
            /\ EmaNumOf(Prefix(m), EmaSlowPeriod, k) = EmaNum(EmaSlowPeriod, k)

\* The indicators have been computed on a series with a proper prefix whose
\* last row has an ATR and is followed by a row with another close.
C18_Witness ==
    /\ PatternsJustComputed
    /\ \E k \in Rows :
          /\ k >= AtrPeriod - 1
          /\ k + 1 < N
          /\ Row(k + 1).close # Row(k).close
          /\ AtrPositive(k)

(***************************************************************************)
(* C20: no statistic of a report with trades is computed by dividing by    *)
(* zero: the denominator of total_return_pct (the average entry price, in  *)
(* backtest_vectorized) and of total_return (|total_profit + 1| in         *)
(* optimize_strategy, the losers' sum in optimize_fixed) is not zero       *)
(* where the division is made.                                             *)
(***************************************************************************)
C20_NoDivisionByZero ==
    (pc = "done" /\ trades # << >>) =>
        /\ variant = "template" => stats.total_return_pct.den # 0
        /\ variant \in {"fixed", "strategy"} => stats.total_return.den # 0

(***************************************************************************)
(* C17: in the live driver, with one poller per instrument/timeframe key   *)
(* sharing the active_positions table, under every interleaving of the     *)
(* pollers no order is sent for a key while the table holds an entry for   *)
(* that key: every order of the log was sent with its key absent from the  *)
(* table, a poller about to send or to record an order has its key absent, *)
(* and no key has more than one accepted order.                            *)
(***************************************************************************)
Accepted(k) == { o \in orders : o.key = k /\ o.status = 201 }

C17_NoOrderWhileHeld ==
    /\ \A o \in orders : o.key \notin o.table
    /\ \A k \in Keys : lpc[k] \in {"post", "add"} => k \notin DOMAIN active_positions
    /\ \A k \in Keys : Cardinality(Accepted(k)) <= 1
    /\ \A k \in DOMAIN active_positions : Cardinality(Accepted(k)) = 1

\* Both pollers have an accepted order, the second sent while the table held
\* the entry of the first, and a later candle was skipped for the open
\* position.
C17_Witness ==
    /\ DOMAIN active_positions = Keys
    /\ \E o \in orders : o.status = 201 /\ o.table # {}
    /\ \E k \in Keys : \E o \in Accepted(k) : loc[k].last_time > o.time /\ lpc[k] = "fetch"

(***************************************************************************)
(* C19: the true range is high - low at index 0 and the largest of         *)
(* high - low, |high - previous close|, |low - previous close| after it;   *)
(* the ATR at index i >= atr_period - 1 is the mean of the atr_period true *)
(* ranges that end at i.  For the poller: the ATR it has computed for the  *)
(* last row of its frame is that mean (times Scale).                       *)
(***************************************************************************)
TrueRangeBySpec(s, k) ==
    IF k = 0 THEN s[1].high - s[1].low
    ELSE Max2(s[k + 1].high - s[k + 1].low,
              Max2(Abs(s[k + 1].high - s[k].close), Abs(s[k + 1].low - s[k].close)))

RECURSIVE TrSumBySpec(_, _, _)
TrSumBySpec(s, k, n) ==
    IF n = 0 THEN 0 ELSE TrueRangeBySpec(s, k) + TrSumBySpec(s, k - 1, n - 1)

C19_AtrIsMeanOfTrueRanges ==
    \A k \in Keys :
        (lpc[k] = "check" /\ LastIndex(k) >= AtrPeriod - 1)
            => loc[k].atr = 10 * TrSumBySpec(loc[k].rows, LastIndex(k), AtrPeriod)

(***************************************************************************)
(* C21: when the exit candle of a trade touches both of its levels (Buy:   *)
(* high >= take and low <= stop; Sell: low <= take and high >= stop), no   *)
(* earlier candle having touched either, the recorded outcome is the       *)
(* take-profit exit, for Buy and for Sell, in every backtest variant.      *)
(***************************************************************************)
BothTouched(t) ==
    LET r == Row(t.exit_idx)
    IN  IF t.type = "BUY"
        THEN r.high * Scale >= t.tp /\ r.low * Scale <= t.sl
        ELSE r.low * Scale <= t.tp /\ r.high * Scale >= t.sl

C21_TakeProfitWinsTie ==
    \A a \in TradeIndices : BothTouched(trades[a]) => trades[a].hit_tp

\* A Sell closed on a candle that touches both of its levels.
C21_Witness ==
    \E a \in TradeIndices : trades[a].type = "SELL" /\ BothTouched(trades[a])

(***************************************************************************)
(* C22: every SELL order the live driver sends has its stop strictly above *)
(* the entry and its take strictly below it, every BUY order its stop      *)
(* strictly below and its take strictly above.                             *)
(***************************************************************************)
LevelsValid(o) ==
    IF o.type = "SELL" THEN o.sl > o.entry /\ o.tp < o.entry
    ELSE o.sl < o.entry /\ o.tp > o.entry

C22_OrderLevelsValid == \A o \in orders : LevelsValid(o.order)

(***************************************************************************)
(* C23: one call of fetch_ohlc issues at most 3 requests; a request is     *)
(* repeated only after a timeout; the call returns the answer of the first *)
(* request that does not time out; after the third timeout in a row the    *)
(* timeout is raised; a request that fails otherwise is the last of the    *)
(* call and its error is raised.                                           *)
(***************************************************************************)
C23_FetchRetriesOnTimeoutOnly ==
    \A k \in Keys :
        LET f == loc[k].fetch
            n == Len(f.log)
        IN  /\ n <= 3
            /\ \A j \in 1 .. (n - 1) : f.log[j] = "timeout"
            /\ f.fetched = "none" <=> n = 0
            /\ f.fetched = "frame" <=> (n > 0 /\ f.log[n] = "ok")
            /\ f.fetched = "Error" <=> (n > 0 /\ f.log[n] = "error")
            /\ f.fetched = "Timeout" <=> (n = 3 /\ f.log[n] = "timeout")
            /\ f.fetched = "running" <=> (n \in 1 .. 2 /\ f.log[n] = "timeout")

\* A call that raised the timeout after three requests.
C23_Witness ==
    \E k \in Keys :
        /\ loc[k].fetch.fetched = "Timeout"
        /\ loc[k].fetch.log = <<"timeout", "timeout", "timeout">>

(***************************************************************************)
(* C25: in the finalBot driver a position recorded for a key stays in the  *)
(* table for the rest of the run, so that has_active_position of the key   *)
(* stays true, no order is sent for the key again, and no key ever has     *)
(* more than one order answered with 201.                                  *)
(***************************************************************************)
OrdersOf(k) == { o \in orders : o.key = k }

PositionStays ==
    \A k \in Keys :
        /\ has_active_position(k) =>
              /\ has_active_position(k)'
              /\ active_positions'[k] = active_positions[k]
              /\ OrdersOf(k)' = OrdersOf(k)
        /\ Cardinality({ o \in OrdersOf(k) : o.status = 201 })' <= 1

C25_PositionStays == [][PositionStays]_vars

\* A key with a recorded position whose poller has since evaluated a later
\* candle with a buy signal and gone back to polling without an order.
C25_Witness ==
    \E k \in Keys :
        /\ has_active_position(k)
        /\ lpc[k] = "fetch"
        /\ LiveBuySignal(k)
        /\ \A o \in OrdersOf(k) : o.time < loc[k].last_time

(***************************************************************************)
(* C26: while the polls of a poller return the same latest completed       *)
(* candle, the candle is evaluated on the first of them only, and at most  *)
(* one order attempt is made for it, also after a rejected order or a skip *)
(* for an active position.                                                 *)
(***************************************************************************)
C26_OneEvaluationPerCandle ==
    \A k \in Keys :
        /\ loc[k].evals <= 1
        /\ \A o1, o2 \in OrdersOf(k) : o1.time = o2.time => o1 = o2
        /\ lpc[k] \in {"check", "post"} => \A o \in OrdersOf(k) : o.time # loc[k].last_time

\* A candle whose order was rejected, polled again and not evaluated again.
C26_Witness ==
    \E k \in Keys :
        /\ lpc[k] = "fetch"
        /\ loc[k].repolled
        /\ \E o \in OrdersOf(k) : o.time = loc[k].last_time /\ o.status # 201

(***************************************************************************)
(* C24: in every backtest variant a trade is entered only at a signal      *)
(* candle of index >= StartIndex (100 in the source): a signal among the   *)
(* rows before it never yields a trade, while the pattern and signal       *)
(* totals of the reports that have them count those rows too.              *)
(***************************************************************************)
AllRows == 0 .. (Len(df) - 1)

WellFormed(c) ==
    /\ c.low <= Min2(c.open, c.close)
    /\ Max2(c.open, c.close) <= c.high

AllWellFormed == \A j \in 1 .. Len(df) : WellFormed(df[j])

C27_HammerHasPositiveAtr ==
    (PatternsComputed /\ AllWellFormed) =>
        /\ \A k \in AllRows :
              (k >= AtrPeriod - 1 /\ (is_bullish_hammer(k) \/ is_bearish_hammer(k)))
                  => AtrScaled(k) > 0
        /\ (variant = "template" /\ use_atr) =>
              \A a \in TradeIndices :
                  LET t == trades[a]
                      atr == TrSum(t.entry_idx, AtrPeriod)
                  IN  /\ t.atr_used
                      /\ t.type = "BUY" => t.sl = t.entry_price - mult.buy_sl * atr
                      /\ t.type = "SELL" => t.sl = t.entry_price + mult.sell_sl * atr

\* A trade of backtest_vectorized with use_atr = True on a well-formed
\* series, entered at a hammer whose ATR window holds a flat candle.
C27_Witness ==
    /\ AllWellFormed
    /\ variant = "template"
    /\ use_atr
    /\ \E a \in TradeIndices :
          /\ trades[a].atr_used
          /\ TrueRange(trades[a].entry_idx - 1) = 0

\* C28: after any sequence of dashboard requests, each answered 200 or 500,
\* open_positions is the number of entries of active_positions, and
\* winning_trades + losing_trades + open_positions <= total_trades.
C28_CountsAgree ==
    /\ bot_state.open_positions = Len(bot_state.active_positions)
    /\ bot_state.winning_trades + bot_state.losing_trades + bot_state.open_positions
           <= bot_state.total_trades

\* C29: after every dashboard request win_rate is 100 * winning_trades /
\* (winning_trades + losing_trades) rounded to one decimal if a closed trade
\* is counted, and 0 if none is, also after a load_history that resets the
\* counters and loads no closed trade.
RateOfCounts ==
    LET total == bot_state.winning_trades + bot_state.losing_trades
    IN  IF total > 0 THEN RoundedRate(bot_state.winning_trades, total) ELSE 0

C29_WinRateOfCounts == response.nth > 0 => bot_state.win_rate = RateOfCounts

\* C30: a close_trade answered 500 leaves the dashboard state as it was:
\* the position is still active and OPEN with its pnl, and the counters,
\* recent_trades and floating_pnl are those before the request.
FailedCloseKeepsState ==
    (response'.handler = "close_trade" /\ response'.status = 500 /\ response'.nth # response.nth)
        => bot_state' = bot_state /\ objects' = objects

C30_FailedCloseKeepsState == [][FailedCloseKeepsState]_vars

=============================================================================
